---- MODULE Spec2Model ----
(***************************************************************************)
(* Sozi camera: CameraState (a view: centre, size, rotation, clip flag),   *)
(* its interpolation, and Camera (a CameraState bound to a viewport that   *)
(* emits the screen transform).  Source: js/sozi.player.Camera.js; the     *)
(* sozi.display variant of the same file has the same arithmetic.          *)
(*                                                                         *)
(* JavaScript Numbers are modelled as exact extended rationals n/d:        *)
(* d > 0 is a finite value in lowest terms, 1/0 is +Infinity, -1/0 is      *)
(* -Infinity and 0/0 is NaN, with the IEEE rules for the operations on     *)
(* them.  Rounding and the sign of zero are not modelled.                  *)
(***************************************************************************)
EXTENDS Integers, Sequences, FiniteSets, TLC

----------------------------------------------------------------------------
(* JavaScript Number arithmetic *)

Abs(i) == IF i < 0 THEN -i ELSE i

Sign(i) == IF i < 0 THEN -1 ELSE IF i > 0 THEN 1 ELSE 0

RECURSIVE Gcd(_, _)
Gcd(a, b) == IF b = 0 THEN a ELSE Gcd(b, a % b)

\* the Number n/d, in lowest terms with d >= 0
Num(n, d) ==
    IF d = 0 THEN [n |-> Sign(n), d |-> 0]
    ELSE LET g == Gcd(Abs(n), Abs(d))
             s == Sign(d)
         IN  [n |-> s * (n \div g), d |-> s * (d \div g)]

I(i) == [n |-> i, d |-> 1]

NaN == [n |-> 0, d |-> 0]

PosInf == [n |-> 1, d |-> 0]

IsNaN(a) == a.d = 0 /\ a.n = 0

IsFinite(a) == a.d > 0

\* a + b
Add(a, b) ==
    IF a.d = 0 /\ b.d = 0
    THEN (IF a.n = b.n THEN a ELSE NaN)
    ELSE Num(a.n * b.d + b.n * a.d, a.d * b.d)

\* -a
Neg(a) == [n |-> -a.n, d |-> a.d]

\* a - b
Sub(a, b) == Add(a, Neg(b))

\* a * b
Mul(a, b) == Num(a.n * b.n, a.d * b.d)

\* a / b
Div(a, b) == Num(a.n * b.d, a.d * b.n)

\* a < b (false when either is NaN)
Lt(a, b) ==
    IF IsNaN(a) \/ IsNaN(b) THEN FALSE
    ELSE IF a.d = 0 /\ b.d = 0 THEN a.n < b.n
    ELSE a.n * b.d < b.n * a.d

\* a > b
Gt(a, b) == Lt(b, a)

\* a <= b
Le(a, b) == Lt(a, b) \/ (~IsNaN(a) /\ a = b)

\* Math.min(a, b)
Min(a, b) ==
    IF IsNaN(a) \/ IsNaN(b) THEN NaN
    ELSE IF Lt(b, a) THEN b ELSE a

\* Math.max(a, b)
Max(a, b) ==
    IF IsNaN(a) \/ IsNaN(b) THEN NaN
    ELSE IF Lt(a, b) THEN b ELSE a

\* a % b: the remainder of the truncating division, with the sign of a
Rem(a, b) ==
    IF IsNaN(a) \/ IsNaN(b) \/ a.d = 0 \/ b.n = 0 THEN NaN
    ELSE IF b.d = 0 THEN a
    ELSE LET p == Abs(a.n) * b.d
             q == a.d * Abs(b.n)
         IN  Sub(a, Mul(b, I(Sign(a.n) * Sign(b.n) * (p \div q))))

IsSquare(i) == \E r \in 0..i : r * r = i

ISqrt(i) == CHOOSE r \in 0..i : r * r = i

\* Math.sqrt(a) has a value the model can write down
HasSqrt(a) == a.d = 0 \/ a.n < 0 \/ (IsSquare(a.n) /\ IsSquare(a.d))

\* Math.sqrt(a), for the arguments of HasSqrt
Sqrt(a) ==
    IF IsNaN(a) \/ a.n < 0 THEN NaN
    ELSE IF a.d = 0 THEN PosInf
    ELSE Num(ISqrt(a.n), ISqrt(a.d))

\* Math.sin and Math.cos of angle * Math.PI / 180 are rational at the
\* multiples of 90 degrees only
HasTrig(angle) == angle.d = 0 \/ (angle.d = 1 /\ angle.n % 90 = 0)

\* Math.sin(angle * Math.PI / 180), for the arguments of HasTrig
SinDeg(angle) ==
    IF angle.d = 0 THEN NaN
    ELSE CASE angle.n % 360 = 0   -> I(0)
           [] angle.n % 360 = 90  -> I(1)
           [] angle.n % 360 = 180 -> I(0)
           [] angle.n % 360 = 270 -> I(-1)

\* Math.cos(angle * Math.PI / 180), for the arguments of HasTrig
CosDeg(angle) ==
    IF angle.d = 0 THEN NaN
    ELSE CASE angle.n % 360 = 0   -> I(1)
           [] angle.n % 360 = 90  -> I(0)
           [] angle.n % 360 = 180 -> I(-1)
           [] angle.n % 360 = 270 -> I(0)

\* Math.atan2(b, a) * 180 / Math.PI for a matrix whose first column (a, b)
\* lies on an axis
Atan2Deg(b, a) ==
    CASE b.n = 0 /\ a.n >= 0 -> I(0)
      [] b.n = 0 /\ a.n < 0  -> I(180)
      [] b.n > 0 /\ a.n = 0  -> I(90)
      [] b.n < 0 /\ a.n = 0  -> I(-90)

----------------------------------------------------------------------------
(* CameraState *)

\* CameraState.init: centred on the bounding box of the SVG root
CameraStateInit(bbox) ==
    [cx      |-> Add(bbox.x, Div(bbox.width, I(2))),
     cy      |-> Add(bbox.y, Div(bbox.height, I(2))),
     width   |-> bbox.width,
     height  |-> bbox.height,
     angle   |-> I(0),
     clipped |-> FALSE]

\* (angle + 180) % 360 - 180
NormalizedAngle(angle) == Sub(Rem(Add(angle, I(180)), I(360)), I(180))

setAngle(this, angle) == [this EXCEPT !.angle = NormalizedAngle(angle)]

\* c.matrixTransform(matrix)
matrixTransform(c, m) ==
    [x |-> Add(Add(Mul(m.a, c.x), Mul(m.c, c.y)), m.e),
     y |-> Add(Add(Mul(m.b, c.x), Mul(m.d, c.y)), m.f)]

\* the scaling factor applied to the element
ElementScale(m) == Sqrt(Add(Mul(m.a, m.a), Mul(m.b, m.b)))

setAtElement(this, svgElement) ==
    LET b      == svgElement.bbox
        matrix == svgElement.ctm
        c      == matrixTransform([x |-> Add(b.x, Div(b.width, I(2))),
                                   y |-> Add(b.y, Div(b.height, I(2)))], matrix)
        scale  == ElementScale(matrix)
    IN  [this EXCEPT !.cx     = c.x,
                     !.cy     = c.y,
                     !.width  = Mul(b.width, scale),
                     !.height = Mul(b.height, scale),
                     !.angle  = Atan2Deg(matrix.b, matrix.a)]

\* sozi.model.Object.set: assigns the given properties, returns this
set(this, props) ==
    [f \in DOMAIN this |-> IF f \in DOMAIN props THEN props[f] ELSE this[f]]

CameraStateSetAtState(this, state) ==
    set(this, [cx      |-> state.cx,
               cy      |-> state.cy,
               width   |-> state.width,
               height  |-> state.height,
               angle   |-> state.angle,
               clipped |-> state.clipped])

clone(this, bbox) == CameraStateSetAtState(CameraStateInit(bbox), this)

\* svgPath.getTotalLength() of a straight horizontal or vertical segment
getTotalLength(svgPath) ==
    I(Abs(svgPath.x1 - svgPath.x0) + Abs(svgPath.y1 - svgPath.y0))

\* svgPath.getPointAtLength(len): distances outside the path are clamped
getPointAtLength(svgPath, len) ==
    LET L == getTotalLength(svgPath)
        l == IF IsNaN(len) \/ Lt(len, I(0)) THEN I(0)
             ELSE IF Lt(L, len) THEN L ELSE len
        t == IF L.n = 0 THEN I(0) ELSE Div(l, L)
    IN  [x |-> Add(I(svgPath.x0), Mul(I(svgPath.x1 - svgPath.x0), t)),
         y |-> Add(I(svgPath.y0), Mul(I(svgPath.y1 - svgPath.y0), t))]

NoPath == [x0 |-> 0, y0 |-> 0, x1 |-> 0, y1 |-> 0, none |-> TRUE]

\* linear with the two weights exchanged
linearSwapped(initial, final, progress) ==
    Add(Mul(initial, progress), Mul(final, Sub(I(1), progress)))

linear(initial, final, progress) ==
    Add(Mul(final, progress), Mul(initial, Sub(I(1), progress)))

\* the apex value of the parabola
quadraticUm(u0, u1, relativeZoom) ==
    IF Gt(relativeZoom, I(0))
    THEN Mul(Max(u0, u1), Add(I(1), relativeZoom))
    ELSE Mul(Min(u0, u1), Sub(I(1), relativeZoom))

\* du0 / du1, whose square root gives the apex time
quadraticRatio(u0, u1, relativeZoom) ==
    LET um == quadraticUm(u0, u1, relativeZoom)
    IN  Div(Sub(u0, um), Sub(u1, um))

\* the apex time
quadraticTm(u0, u1, relativeZoom) ==
    LET r == Sqrt(quadraticRatio(u0, u1, relativeZoom))
    IN  Div(r, Add(I(1), r))

quadratic(u0, u1, progress, relativeZoom) ==
    LET um  == quadraticUm(u0, u1, relativeZoom)
        du0 == Sub(u0, um)
        tm  == quadraticTm(u0, u1, relativeZoom)
        k   == Div(Div(du0, tm), tm)
        dt  == Sub(progress, tm)
    IN  Add(Mul(Mul(k, dt), dt), um)

\* the interpolated width or height
interpolateSize(u0, u1, progress, relativeZoom) ==
    IF relativeZoom.n # 0
    THEN quadratic(u0, u1, progress, relativeZoom)
    ELSE linear(u0, u1, progress)

\* the interpolated cx (axis "x") or cy (axis "y")
interpolateLocation(c0, c1, axis, progress, svgPath, reversePath) ==
    IF ~svgPath.none
    THEN LET pathLength   == getTotalLength(svgPath)
             remaining    == Sub(I(1), progress)
             startPoint   == getPointAtLength(svgPath,
                                 IF reversePath THEN pathLength ELSE I(0))
             endPoint     == getPointAtLength(svgPath,
                                 IF reversePath THEN I(0) ELSE pathLength)
             currentPoint == getPointAtLength(svgPath,
                                 Mul(pathLength,
                                     IF reversePath THEN remaining ELSE progress))
         IN  Add(currentPoint[axis],
                 linear(Sub(c0, startPoint[axis]), Sub(c1, endPoint[axis]), progress))
    ELSE linear(c0, c1, progress)

\* the interpolated angle: keep the smallest angle between the two states
interpolateAngle(a0, a1, progress) ==
    IF Gt(Sub(a1, a0), I(180))
    THEN linear(a0, Sub(a1, I(360)), progress)
    ELSE IF Lt(Sub(a1, a0), I(-180))
    THEN linear(Sub(a0, I(360)), a1, progress)
    ELSE linear(a0, a1, progress)

interpolate(this, initialState, finalState, progress, relativeZoom, svgPath, reversePath) ==
    [this EXCEPT
        !.width  = interpolateSize(initialState.width, finalState.width,
                                   progress, relativeZoom),
        !.height = interpolateSize(initialState.height, finalState.height,
                                   progress, relativeZoom),
        !.cx     = interpolateLocation(initialState.cx, finalState.cx, "x",
                                       progress, svgPath, reversePath),
        !.cy     = interpolateLocation(initialState.cy, finalState.cy, "y",
                                       progress, svgPath, reversePath),
        !.angle  = interpolateAngle(initialState.angle, finalState.angle, progress)]

----------------------------------------------------------------------------
(* Camera: a CameraState bound to a viewport.  A Camera method yields the   *)
(* new fields (cam) and what the renderer was last given (out).             *)

\* nothing has been given to the renderer yet
NoOutput == [clip |-> <<>>, transform |-> <<>>]

\* scale as the larger of the two ratios: the frame covers the viewport
scaleCover(this, viewport) ==
    Max(Div(viewport.width, this.width), Div(viewport.height, this.height))

\* get scale()
scale(this, viewport) ==
    Min(Div(viewport.width, this.width), Div(viewport.height, this.height))

\* the attributes update() sets on the clip rectangle and the layer groups:
\* clip is <<x, y, width, height>>, transform is scale(s) translate(tx, ty)
\* rotate(r, px, py) as <<s, tx, ty, r, px, py>>
update(this, viewport) ==
    LET s      == scale(this, viewport)
        width  == Mul(this.width, s)
        height == Mul(this.height, s)
        x      == Div(Sub(viewport.width, width), I(2))
        y      == Div(Sub(viewport.height, height), I(2))
        translateX == Add(Add(Neg(this.cx), Div(this.width, I(2))), Div(x, s))
        translateY == Add(Add(Neg(this.cy), Div(this.height, I(2))), Div(y, s))
    IN  [clip |-> IF this.clipped
                  THEN <<x, y, width, height>>
                  ELSE <<I(0), I(0), viewport.width, viewport.height>>,
         transform |-> <<s, translateX, translateY,
                         Neg(this.angle), this.cx, this.cy>>]

\* Camera.setAtState without the call of update() on the new fields
CameraSetAtStateOnly(this, state, viewport) ==
    [cam |-> CameraStateSetAtState(this, state), out |-> update(this, viewport)]

CameraSetAtState(this, state, viewport) ==
    LET c == CameraStateSetAtState(this, state)
    IN  [cam |-> c, out |-> update(c, viewport)]

rotate(this, angle, viewport) ==
    LET c == setAngle(this, Add(this.angle, angle))
    IN  [cam |-> c, out |-> update(c, viewport)]

drag(this, deltaX, deltaY, viewport) ==
    LET s  == scale(this, viewport)
        si == SinDeg(this.angle)
        co == CosDeg(this.angle)
        c  == [this EXCEPT
                 !.clipped = FALSE,
                 !.cx = Sub(this.cx,
                            Div(Sub(Mul(deltaX, co), Mul(deltaY, si)), s)),
                 !.cy = Sub(this.cy,
                            Div(Add(Mul(deltaX, si), Mul(deltaY, co)), s))]
    IN  [cam |-> c, out |-> update(c, viewport)]

\* zoom with the pivot taken from the corner of the viewport
zoomFromCorner(this, factor, x, y, viewport) ==
    LET c == [this EXCEPT !.width  = Div(this.width, factor),
                          !.height = Div(this.height, factor)]
    IN  drag(c, Mul(Sub(I(1), factor), x), Mul(Sub(I(1), factor), y), viewport)

zoom(this, factor, x, y, viewport) ==
    LET c == [this EXCEPT !.width  = Div(this.width, factor),
                          !.height = Div(this.height, factor)]
    IN  drag(c,
             Mul(Sub(I(1), factor), Sub(x, Div(viewport.width, I(2)))),
             Mul(Sub(I(1), factor), Sub(y, Div(viewport.height, I(2)))),
             viewport)

----------------------------------------------------------------------------
(* The objects and the calls made on them *)

\* the longest sequence of calls explored
MaxOps == 2

\* setAngle is called with angles down to this many quarter turns backwards
MaxQuarter == 5

\* the Camera and a plain CameraState (a frame's state)
Cam == 1

State == 2

Objects == {Cam, State}

Viewports == {[width |-> I(4), height |-> I(2)]}

BBox(x, y, w, h) == [x |-> I(x), y |-> I(y), width |-> I(w), height |-> I(h)]

Matrix(a, b, c, d, e, f) ==
    [a |-> I(a), b |-> I(b), c |-> I(c), d |-> I(d), e |-> I(e), f |-> I(f)]

\* bounding boxes of the SVG root
RootBBoxes == {BBox(0, 0, 4, 2)}

\* the element the first frame of the document refers to: rotated by 90
\* degrees and scaled by 2
FrameElement == [bbox |-> BBox(0, 0, 2, 1), ctm |-> Matrix(0, 2, -2, 0, 1, 0)]

\* elements a frame can refer to: that one, and elements rotated by 180
\* degrees, untransformed, and a vertical line (no width)
Elements ==
    {FrameElement,
     [bbox |-> BBox(1, 1, 2, 2), ctm |-> Matrix(-1, 0, 0, -1, 0, 0)],
     [bbox |-> BBox(0, 0, 1, 2), ctm |-> Matrix(1, 0, 0, 1, 0, 0)],
     [bbox |-> BBox(2, 0, 0, 2), ctm |-> Matrix(1, 0, 0, 1, 0, 0)]}

Angles == {I(-90 * MaxQuarter), I(-190), I(170), I(180)}

RotateAngles == {I(90), I(-270)}

Progresses == {I(0), Num(1, 2), I(1)}

RelativeZooms == {I(0), Num(1, 4), Num(-1, 4)}

Segment(x0, y0, x1, y1) ==
    [x0 |-> x0, y0 |-> y0, x1 |-> x1, y1 |-> y1, none |-> FALSE]

\* path and reversePath arguments of interpolate
PathArgs ==
    {<<NoPath, FALSE>>, <<Segment(0, 0, 2, 0), FALSE>>, <<Segment(0, 0, 2, 0), TRUE>>}

\* relativeZoom, path and reversePath arguments of interpolate
ZoomPathArgs ==
    {<<rz, NoPath, FALSE>> : rz \in RelativeZooms} \cup
    {<<I(0), pa[1], pa[2]>> : pa \in PathArgs}

Factors == {I(2), Num(1, 2), I(-1), I(0)}

Pivots == {<<I(0), I(0)>>, <<I(3), I(1)>>}

Deltas == {<<I(0), I(0)>>, <<I(1), I(-2)>>}

VARIABLES
    obj,        \* obj[Cam], obj[State]: the fields of the two objects
    out,        \* what the Camera last gave the renderer
    viewport,   \* the viewport of the Camera
    rootBBox,   \* the bounding box of the SVG root
    last,       \* the last call: its name, receiver and arguments, and the
                \* objects and the renderer before it
    nOps        \* the number of calls made

vars == <<obj, out, viewport, rootBBox, last, nOps>>

NoArgs == [none |-> TRUE]

Call(op, o, args) ==
    [op |-> op, o |-> o, args |-> args, pre |-> obj, shown |-> out]

\* Camera.init for the Camera; the frame's state is made as the document
\* upgrade makes it: CameraState.init, then setAtElement when the frame
\* refers to an element.  A frame that refers to an element is clipped to
\* it: clipped is a plain field, which the presentation sets.
Init ==
    /\ viewport \in Viewports
    /\ rootBBox \in RootBBoxes
    /\ \E s \in {CameraStateInit(rootBBox),
                 [setAtElement(CameraStateInit(rootBBox), FrameElement)
                      EXCEPT !.clipped = TRUE]} :
           obj = [o \in Objects |-> IF o = Cam THEN CameraStateInit(rootBBox) ELSE s]
    /\ out = NoOutput
    /\ last = [op |-> "init", o |-> Cam, args |-> NoArgs, pre |-> obj, shown |-> out]
    /\ nOps = 0

\* another call may be made
More == nOps < MaxOps

\* a call on a CameraState, or an inherited method called on the Camera
StateCall(op, o, args, new) ==
    /\ obj' = [obj EXCEPT ![o] = new]
    /\ last' = Call(op, o, args)
    /\ nOps' = nOps + 1
    /\ UNCHANGED <<out, viewport, rootBBox>>

\* a call of a method of Camera
CameraCall(op, args, new) ==
    /\ obj' = [obj EXCEPT ![Cam] = new.cam]
    /\ out' = new.out
    /\ last' = Call(op, Cam, args)
    /\ nOps' = nOps + 1
    /\ UNCHANGED <<viewport, rootBBox>>

SetAngle ==
    /\ More
    /\ \E o \in Objects, a \in Angles :
           StateCall("setAngle", o, [angle |-> a], setAngle(obj[o], a))

SetAtElement ==
    /\ More
    /\ \E o \in Objects, el \in Elements :
           StateCall("setAtElement", o, [svgElement |-> el], setAtElement(obj[o], el))

\* CameraState.setAtState on the plain state
SetAtState ==
    /\ More
    /\ StateCall("setAtState", State, [state |-> Cam],
                 CameraStateSetAtState(obj[State], obj[Cam]))

\* the frame's state is replaced by a clone
Clone ==
    /\ More
    /\ \E src \in Objects :
           StateCall("clone", State, [state |-> src], clone(obj[src], rootBBox))

Interpolate ==
    /\ More
    /\ \E i \in Objects, p \in Progresses, za \in ZoomPathArgs :
           LET o  == Cam
               f  == CHOOSE j \in Objects : j # i
               rz == za[1]
               pa == <<za[2], za[3]>>
           IN
           /\ rz.n # 0 =>
                 /\ HasSqrt(quadraticRatio(obj[i].width, obj[f].width, rz))
                 /\ HasSqrt(quadraticRatio(obj[i].height, obj[f].height, rz))
           /\ StateCall("interpolate", o,
                        [initialState |-> i, finalState |-> f, progress |-> p,
                         relativeZoom |-> rz, svgPath |-> pa[1], reversePath |-> pa[2]],
                        interpolate(obj[o], obj[i], obj[f], p, rz, pa[1], pa[2]))

\* Camera.setAtState
CameraSetAtStateStep ==
    /\ More
    /\ CameraCall("Camera.setAtState", [state |-> State],
                  CameraSetAtState(obj[Cam], obj[State], viewport))

Rotate ==
    /\ More
    /\ \E a \in RotateAngles :
           CameraCall("rotate", [angle |-> a], rotate(obj[Cam], a, viewport))

Zoom ==
    /\ More
    /\ \E f \in Factors, pv \in Pivots :
           /\ HasTrig(obj[Cam].angle)
           /\ CameraCall("zoom", [factor |-> f, x |-> pv[1], y |-> pv[2]],
                         zoom(obj[Cam], f, pv[1], pv[2], viewport))

Drag ==
    /\ More
    /\ \E dl \in Deltas :
           /\ HasTrig(obj[Cam].angle)
           /\ CameraCall("drag", [deltaX |-> dl[1], deltaY |-> dl[2]],
                         drag(obj[Cam], dl[1], dl[2], viewport))

Update ==
    /\ More
    /\ CameraCall("update", NoArgs, [cam |-> obj[Cam], out |-> update(obj[Cam], viewport)])

Next ==
    \/ SetAngle
    \/ SetAtElement
    \/ SetAtState
    \/ Clone
    \/ Interpolate
    \/ CameraSetAtStateStep
    \/ Rotate
    \/ Zoom
    \/ Drag
    \/ Update

Spec == Init /\ [][Next]_vars

----------------------------------------------------------------------------
(* Properties *)

\* the object the last call was made on, and the objects before that call
Receiver == obj[last.o]

Before(o) == last.pre[o]

InRange(angle) == Le(I(-180), angle) /\ Lt(angle, I(180))

AbsNum(a) == IF a.n < 0 THEN Neg(a) ELSE a

\* every field of the state is a finite number
FiniteState(s) ==
    /\ IsFinite(s.cx) /\ IsFinite(s.cy)
    /\ IsFinite(s.width) /\ IsFinite(s.height)
    /\ IsFinite(s.angle)

\* the width and height are positive numbers
PositiveSize(s) ==
    /\ IsFinite(s.width) /\ IsFinite(s.height)
    /\ Gt(s.width, I(0)) /\ Gt(s.height, I(0))

\* C1: after setAngle(a), for every angle a, the stored angle lies in
\* [-180, 180).
C1_SetAngleInRange ==
    last.op = "setAngle" => InRange(Receiver.angle)

\* C2: setAngle is 360-periodic: setAngle(a) stores the angle that
\* setAngle(a + 360 k) stores, for every whole number of turns k.
C2_SetAnglePeriodic ==
    last.op = "setAngle" =>
        \A k \in -1..1 :
            Receiver.angle =
                setAngle(Before(last.o), Add(last.args.angle, I(360 * k))).angle

\* interpolate was last called with relativeZoom = 0 and no path
LinearInterpolation ==
    /\ last.op = "interpolate"
    /\ last.args.relativeZoom = I(0)
    /\ last.args.svgPath.none

InitialState == Before(last.args.initialState)

FinalState == Before(last.args.finalState)

SameFields(s, t) ==
    /\ s.cx = t.cx /\ s.cy = t.cy
    /\ s.width = t.width /\ s.height = t.height
    /\ s.angle = t.angle
    /\ s.clipped = t.clipped

\* C3 as stated: with relativeZoom = 0 and no path, interpolate at progress 0
\* leaves the receiver equal to the initial state and at progress 1 equal to
\* the final state, over cx, cy, width, height, angle and clipped.
C3_EndpointsAllFields ==
    LinearInterpolation =>
        /\ last.args.progress = I(0) => SameFields(Receiver, InitialState)
        /\ last.args.progress = I(1) => SameFields(Receiver, FinalState)

SameFrame(s, t) ==
    /\ s.cx = t.cx /\ s.cy = t.cy
    /\ s.width = t.width /\ s.height = t.height

\* s has the cx, cy, width and height of state t, except that a field which
\* is infinite or NaN in the other state u has become NaN
SameFrameBut(s, t, u) ==
    \A f \in {"cx", "cy", "width", "height"} :
        s[f] = IF IsFinite(u[f]) THEN t[f] ELSE NaN

\* C3 as amended: with relativeZoom = 0 and no path, interpolate at progress
\* 0 gives the initial cx, cy, width and height and at progress 1 the final
\* ones (a field that is infinite or NaN in the other state becomes NaN); the
\* angle is the initial (final) angle, or that angle less 360 when the final
\* angle is more than 180 below (above) the initial one; clipped is not
\* written.
C3_Endpoints ==
    LinearInterpolation =>
        LET d == Sub(FinalState.angle, InitialState.angle) IN
        /\ Receiver.clipped = Before(last.o).clipped
        /\ last.args.progress = I(0) =>
              /\ SameFrameBut(Receiver, InitialState, FinalState)
              /\ Receiver.angle = IF Lt(d, I(-180))
                                   THEN Sub(InitialState.angle, I(360))
                                   ELSE InitialState.angle
        /\ last.args.progress = I(1) =>
              /\ SameFrameBut(Receiver, FinalState, InitialState)
              /\ Receiver.angle = IF Gt(d, I(180))
                                   THEN Sub(FinalState.angle, I(360))
                                   ELSE FinalState.angle

\* C3 happens: an interpolation at progress 1 between two different finite
\* states, the final angle more than 180 above the initial one, the final
\* state clipped and the receiver not
C3_Witness ==
    /\ LinearInterpolation
    /\ FiniteState(InitialState) /\ FiniteState(FinalState)
    /\ last.args.progress = I(1)
    /\ ~SameFrame(InitialState, FinalState)
    /\ Gt(Sub(FinalState.angle, InitialState.angle), I(180))
    /\ FinalState.clipped /\ ~Receiver.clipped
    /\ SameFrame(Receiver, FinalState)

\* C4: for every pair of states the public operations produce, the angle
\* interpolate gives at progress 1 is at most 180 degrees from the angle it
\* gives at progress 0.
C4_ShorterWayRound ==
    \A i \in Objects, f \in Objects :
        Le(AbsNum(Sub(interpolateAngle(obj[i].angle, obj[f].angle, I(1)),
                      interpolateAngle(obj[i].angle, obj[f].angle, I(0)))),
           I(180))

\* the methods Camera defines that change its fields
CameraMutators == {"rotate", "zoom", "drag", "Camera.setAtState"}

\* the methods Camera inherits from CameraState that change its fields
InheritedMutators == {"setAngle", "setAtElement", "interpolate"}

\* the renderer shows the Camera's current fields
UpToDate == out = update(obj[Cam], viewport)

\* C5 as stated: after any public mutating operation on the Camera (rotate,
\* zoom, drag, setAtState, and the inherited setAngle, setAtElement,
\* interpolate) the renderer holds the transform and clip rectangle that
\* update() computes from the current fields.
C5_NeverStale ==
    (last.o = Cam /\ last.op \in CameraMutators \cup InheritedMutators) => UpToDate

\* C5 as amended: after rotate, zoom, drag and Camera.setAtState the renderer
\* holds the transform and clip rectangle that update() computes from the
\* current fields; the inherited setAngle, setAtElement and interpolate change
\* the fields without giving the renderer anything.
C5_CameraMutatorsUpdate ==
    /\ last.op \in CameraMutators => UpToDate
    /\ (last.o = Cam /\ last.op \in InheritedMutators) => out = last.shown

\* C5 happens: Camera.setAtState has changed the fields of a Camera whose
\* renderer was out of date, and the Camera is now clipped
C5_Witness ==
    /\ last.op = "Camera.setAtState"
    /\ obj[Cam] # Before(Cam)
    /\ last.shown # update(Before(Cam), viewport)
    /\ obj[Cam].clipped
    /\ UpToDate

\* C6: in every state the stored angle lies in [-180, 180), and the angle
\* is written through setAngle only (rotate calls setAngle).
C6_AngleInvariant ==
    \A o \in Objects :
        /\ InRange(obj[o].angle)
        /\ (last.op # "init" /\ obj[o].angle # Before(o).angle) =>
               last.op \in {"setAngle", "rotate"}

\* C7: in every state width > 0 and height > 0; an operation that would make
\* them non-positive does not store the value.
C7_PositiveSize ==
    \A o \in Objects : Gt(obj[o].width, I(0)) /\ Gt(obj[o].height, I(0))

\* the screen pixel to which scale(s) translate(tx, ty) rotate(r, px, py)
\* maps the scene point p.  The rotation is by r degrees about (px, py).
Apply(t, p) ==
    LET co == CosDeg(t[4])
        si == SinDeg(t[4])
        dx == Sub(p.x, t[5])
        dy == Sub(p.y, t[6])
        rx == Add(Sub(Mul(co, dx), Mul(si, dy)), t[5])
        ry == Add(Add(Mul(si, dx), Mul(co, dy)), t[6])
    IN  [x |-> Mul(t[1], Add(rx, t[2])), y |-> Mul(t[1], Add(ry, t[3]))]

\* the scene point that the transform maps to the screen pixel q
Unapply(t, q) ==
    LET co == CosDeg(t[4])
        si == SinDeg(t[4])
        u  == Sub(Sub(Div(q.x, t[1]), t[2]), t[5])
        v  == Sub(Sub(Div(q.y, t[1]), t[3]), t[6])
    IN  [x |-> Add(t[5], Add(Mul(co, u), Mul(si, v))),
         y |-> Add(t[6], Sub(Mul(co, v), Mul(si, u)))]

\* zoom was last called, with a positive factor, on a Camera of positive size
ProperZoom ==
    /\ last.op = "zoom"
    /\ PositiveSize(Before(Cam))
    /\ IsFinite(last.args.factor) /\ Gt(last.args.factor, I(0))

Pivot == [x |-> last.args.x, y |-> last.args.y]

\* C8: zoom(factor, pivotX, pivotY) with factor > 0 on a Camera of positive
\* size divides width and height by factor, and the scene point that the
\* transform of the Camera's fields showed at the pivot pixel before the call
\* is shown at the same pixel by the transform given to the renderer.
C8_PivotStationary ==
    ProperZoom =>
        /\ obj[Cam].width = Div(Before(Cam).width, last.args.factor)
        /\ obj[Cam].height = Div(Before(Cam).height, last.args.factor)
        /\ Apply(out.transform,
                 Unapply(update(Before(Cam), viewport).transform, Pivot)) = Pivot

\* C8 happens: a rotated Camera has zoomed about a pixel off the centre of
\* the viewport, and its centre has moved along both axes
C8_Witness ==
    /\ ProperZoom
    /\ last.args.factor # I(1)
    /\ SinDeg(Before(Cam).angle) # I(0)
    /\ Pivot.x # Div(viewport.width, I(2))
    /\ Pivot.y # Div(viewport.height, I(2))
    /\ obj[Cam].cx # Before(Cam).cx
    /\ obj[Cam].cy # Before(Cam).cy

\* C9: every drag ends with clipped = false, and for every Camera state
\* drag(0, 0) leaves cx, cy, width, height and angle as they were.
C9_DragClearsClipped ==
    last.op = "drag" =>
        /\ ~obj[Cam].clipped
        /\ (last.args.deltaX = I(0) /\ last.args.deltaY = I(0)) =>
               /\ SameFrame(obj[Cam], Before(Cam))
               /\ obj[Cam].angle = Before(Cam).angle

\* the clip rectangle <<x, y, width, height>> that update() computes for a
\* clipped Camera: the frame on the screen
Frame == update([obj[Cam] EXCEPT !.clipped = TRUE], viewport).clip

WidthRatio == Div(viewport.width, obj[Cam].width)

HeightRatio == Div(viewport.height, obj[Cam].height)

ParabolicInterpolation ==
    /\ last.op = "interpolate"
    /\ last.args.relativeZoom # I(0)

\* the initial and the final state have positive widths and heights
PositiveEndpoints == PositiveSize(InitialState) /\ PositiveSize(FinalState)

\* C11: when relativeZoom < 0, for all positive endpoint sizes u0 and u1 the
\* apex value um of the parabola is smaller than both u0 and u1, for the
\* width and for the height.
C11_PinchBelowBoth ==
    (ParabolicInterpolation /\ PositiveEndpoints
        /\ Lt(last.args.relativeZoom, I(0))) =>
        \A f \in {"width", "height"} :
            LET um == quadraticUm(InitialState[f], FinalState[f],
                                  last.args.relativeZoom)
            IN  Lt(um, InitialState[f]) /\ Lt(um, FinalState[f])

\* the size quadratic gives at the apex time
ApexSize(u0, u1, relativeZoom) ==
    quadratic(u0, u1, quadraticTm(u0, u1, relativeZoom), relativeZoom)

\* C12: for every relativeZoom other than 0 and all positive endpoint sizes
\* the parabola gives exactly u0 at progress 0 and exactly u1 at progress 1,
\* and at the apex time tm = r / (1 + r), which lies in [0, 1], it gives the
\* apex value um.
C12_ParabolaEndpoints ==
    (ParabolicInterpolation /\ PositiveEndpoints) =>
        \A f \in {"width", "height"} :
            LET u0 == InitialState[f]
                u1 == FinalState[f]
                rz == last.args.relativeZoom
                tm == quadraticTm(u0, u1, rz)
            IN  /\ last.args.progress = I(0) => Receiver[f] = u0
                /\ last.args.progress = I(1) => Receiver[f] = u1
                /\ Le(I(0), tm) /\ Le(tm, I(1))
                /\ ApexSize(u0, u1, rz) = quadraticUm(u0, u1, rz)

\* the same for a positive relativeZoom only, where the apex value is above
\* both endpoint sizes
ParabolaEndpointsBulge ==
    (ParabolicInterpolation /\ PositiveEndpoints
        /\ Gt(last.args.relativeZoom, I(0))) => C12_ParabolaEndpoints

BulgeHappens ==
    /\ ParabolicInterpolation /\ PositiveEndpoints
    /\ Gt(last.args.relativeZoom, I(0))
    /\ InitialState.width # FinalState.width
    /\ last.args.progress = I(1)

\* interpolate was last called with a path
PathInterpolation ==
    /\ last.op = "interpolate"
    /\ ~last.args.svgPath.none

\* C13: with a path, for every path, every initial and final state and both
\* values of reversePath, interpolate gives the initial cx and cy at progress
\* 0 and the final cx and cy at progress 1.
C13_PathEndpoints ==
    PathInterpolation =>
        /\ last.args.progress = I(0) =>
              Receiver.cx = InitialState.cx /\ Receiver.cy = InitialState.cy
        /\ last.args.progress = I(1) =>
              Receiver.cx = FinalState.cx /\ Receiver.cy = FinalState.cy

\* the centres of the initial and the final state are finite
FiniteCentres ==
    /\ IsFinite(InitialState.cx) /\ IsFinite(InitialState.cy)
    /\ IsFinite(FinalState.cx) /\ IsFinite(FinalState.cy)

\* the same between states whose centres are finite
PathEndpointsFinite == (PathInterpolation /\ FiniteCentres) => C13_PathEndpoints

PathHappens ==
    /\ PathInterpolation /\ FiniteCentres
    /\ last.args.reversePath
    /\ last.args.progress = I(1)
    /\ InitialState.cx # FinalState.cx
    /\ FinalState.cx # I(last.args.svgPath.x0)

====
